---- MODULE Spec2Model ----
(***************************************************************************)
(* StereoWorkbench: the capture worker (Worker.run and the operations it   *)
(* calls), the front end's setters and one-shot commands, and the session  *)
(* scope of main() that owns the camera devices.                           *)
(*                                                                         *)
(* The repository holds two generations of the worker:                     *)
(*   "SW"  src/StereoWorkbench.py  Worker (preview and interval capture)   *)
(*   "UI"  src/WorkbenchUI.py      Worker (adds the chessboard session)    *)
(* version selects which one the session runs.  The session scope (the     *)
(* with-block that releases the devices) is main() of StereoWorkbench.py.  *)
(*                                                                         *)
(* Threads: the worker (QThread.run), the front end (slots executed by the *)
(* event loop inside app.exec_()), and main() itself once the event loop   *)
(* has returned.  Every read or write of a shared attribute is one step.   *)
(*                                                                         *)
(* Three specifications share the variables:                               *)
(*   Spec / FairSpec  a session of the worker, the front end and main()    *)
(*   PairSpec         calls of set_rotation and get_frames on pair objects *)
(*                    of transformed_stereo_cameras.py, images modelled    *)
(*                    pixel by pixel                                       *)
(*   FunSpec          calls of rotate_bound and of Worker.render           *)
(***************************************************************************)
EXTENDS Integers, Sequences, FiniteSets, TLC

\* ---------------------------------------------------------------- bounds
MaxInterval == 1        \* interval spin box values 0..MaxInterval (seconds)
MaxCount == 1           \* chessboard count spin box values 0..MaxCount ...
WideCount == 10         \* ... and one count with more decimal digits
MaxAcq == 3             \* acquisitions of one chessboard search are counted up to here
MaxFrontOps == 2        \* setter calls and capture clicks the front end issues in one run
MaxW == 3               \* frame widths 1..MaxW (pixels)
MaxH == 2               \* frame heights 1..MaxH (pixels)
MaxPoints == 6          \* pixels of a rendered image pair, 0..MaxPoints

\* ------------------------------------------------------ program constants
PauseSeconds == 2       \* `while time.time() < start + 2`

Versions == {"SW", "UI"}
Intervals == 0..MaxInterval
Counts == (0..MaxCount) \cup {WideCount}
Paths == {"", "dir"}
MaxElapsed == IF MaxInterval > PauseSeconds THEN MaxInterval ELSE PauseSeconds

VARIABLES
    version,                \* which Worker class runs
    \* --- Worker attributes shared with the front end
    running, intervalEnabled, captureChessboards, interval,
    chessboardCount, chessboardCapturePath, imagesPath,
    \* --- worker thread: position and locals
    wpc,                    \* position in Worker.run / the methods it calls
    rangeN,                 \* length of range(self.chessboardCount), fixed at loop entry
    i,                      \* loop variable of `for i in range(...)`
    found_chessboard,       \* local of captureAndSaveChessboardPair
    frames,                 \* local of captureAndSaveChessboardPair: the pair searched
    elapsed,                \* time.time() - start of the running countdown
    \* --- captureBoth / captureImage locals, per calling thread
    capK,                   \* loop variable of `for i in [0, 1]` in captureBoth
    \* --- front-end thread and main()
    fpc,                    \* "idle" or inside a captureBoth, calibrate or render slot
    mpc,                    \* main(): "exec", "closed", "raised", "exited"
    released,               \* how many times the devices were released
    frontOps,               \* setter calls and capture clicks issued so far
    \* --- history variables (not program state)
    observedStop,           \* the loop test has read running = False
    searchAcq,              \* get_frames calls of the current chessboard search
    firstBoth,              \* first of those whose pair shows the board in both frames
    pairFiles,              \* files written by the current captureAndSaveChessboardPair
    sessNums,               \* <<side, number>> of every file of the current session
    capAcq,                 \* get_frames calls of the current captureBoth, per thread
    capLog,                 \* files written by the current captureBoth, per thread
    requested,              \* the last chessboard request no session has started after
    \* --- exceptions
    raised,                 \* per thread: the exception that ended its last operation
    \* --- StereoPair objects (transformed_stereo_cameras.py)
    rotation,               \* the class attribute StereoPair.rotation, a list of two angles
    pairs,                  \* the constructed pair objects: device mode and class
    call                    \* the last call on a pair or pure function, with its result

config == <<running, intervalEnabled, captureChessboards, interval,
            chessboardCount, chessboardCapturePath, imagesPath>>
wlocals == <<wpc, rangeN, i, found_chessboard, frames, elapsed>>
mainv == <<fpc, mpc, released, frontOps>>
hist == <<observedStop, searchAcq, firstBoth, pairFiles, sessNums, capAcq, capLog,
          requested>>
objects == <<rotation, pairs, call>>
session == <<version, objects>>
vars == <<session, config, wlocals, capK, mainv, hist, raised>>

Threads == {"worker", "frontend"}
Exceptions == {"ValueError", "NameError", "AttributeError"}
NoFrames == [acq |-> 0, det |-> <<FALSE, FALSE>>]

\* ------------------------------------------------------- pure functions

\* len(str(n)) for n >= 0
RECURSIVE Digits(_)
Digits(n) == IF n < 10 THEN 1 ELSE 1 + Digits(n \div 10)

\* len(str(num).zfill(width)): zfill pads on the left, it never truncates
ZFillLen(num, width) == IF Digits(num) >= width THEN Digits(num) ELSE width

\* the number written into a chessboard file name: str(imgNum + 1)
FileNumber_imgNum(imgNum) == imgNum
FileNumber(imgNum) == imgNum + 1

\* found_chessboard after the `for i, frame in enumerate(frames)` loop: both
\* entries are assigned from the frames just searched
FindChessboards_sticky(old, det) == <<old[1] \/ det[1], old[2] \/ det[2]>>
FindChessboards(old, det) == <<det[1], det[2]>>

\* `while time.time() < start + limit`
Waiting_le(el, limit) == el <= limit
Waiting(el, limit) == el < limit

\* camName[cam] / ["Left", "Right"][cam]
camName(cam) == IF cam = 0 THEN "Left" ELSE "Right"
sideName(s) == IF s = 0 THEN "left" ELSE "right"

Bump(c) == IF c < MaxAcq THEN c + 1 ELSE MaxAcq

\* The devices deliver frames only until they are released: after
\* capture.release(), capture.read() returns (False, None) and rotate_bound /
\* frame.shape raise AttributeError.
DevicesOpen == released = 0

TypeOK ==
    /\ version \in Versions
    /\ running \in BOOLEAN /\ intervalEnabled \in BOOLEAN
    /\ captureChessboards \in BOOLEAN
    /\ interval \in Intervals /\ chessboardCount \in Counts
    /\ chessboardCapturePath \in Paths /\ imagesPath \in Paths
    /\ rangeN \in Counts /\ i \in 0..WideCount
    /\ found_chessboard \in BOOLEAN \X BOOLEAN
    /\ elapsed \in 0..MaxElapsed
    /\ capK \in [Threads -> 0..1]
    /\ fpc \in {"idle", "cap_get", "cap_read", "cap_write", "cap_done", "calibrate",
               "render"}
    /\ mpc \in {"exec", "closed", "raised", "exited"}
    /\ released \in 0..2
    /\ frontOps \in 0..MaxFrontOps
    /\ observedStop \in BOOLEAN
    /\ requested \in {"none", "idle", "busy"}
    /\ searchAcq \in 0..MaxAcq /\ firstBoth \in 0..MaxAcq
    /\ raised \in [Threads -> Exceptions \cup {"none"}]

\* The state once main() has started the worker and shown the window.
\* Worker.__init__ sets running, intervalEnabled and captureChessboards;
\* MainWindow.__init__ of WorkbenchUI.py copies the restored spin-box values
\* and paths into the worker (any value of the modelled ranges); the worker of
\* StereoWorkbench.py starts with dirPath = "" and has no chessboard attributes.
\* interval stands for the configured seconds, scaled to the modelled range.
WorkerInit ==
    /\ version \in Versions
    /\ running = TRUE
    /\ intervalEnabled = FALSE
    /\ captureChessboards = FALSE
    /\ interval \in Intervals
    /\ chessboardCount \in (IF version = "UI" THEN 0..MaxCount ELSE {0})
    /\ chessboardCapturePath \in (IF version = "UI" THEN Paths ELSE {""})
    /\ imagesPath \in (IF version = "UI" THEN Paths ELSE {""})
    /\ wpc = "top"
    /\ rangeN = 0 /\ i = 0
    /\ found_chessboard = <<FALSE, FALSE>>
    /\ frames = NoFrames
    /\ elapsed = 0
    /\ capK = [t \in Threads |-> 0]
    /\ fpc = "idle" /\ mpc = "exec" /\ released = 0 /\ frontOps = 0
    /\ observedStop = FALSE
    /\ requested = "none"
    /\ searchAcq = 0 /\ firstBoth = 0
    /\ pairFiles = <<>> /\ sessNums = <<>>
    /\ capAcq = [t \in Threads |-> 0]
    /\ capLog = [t \in Threads |-> <<>>]
    /\ raised = [t \in Threads |-> "none"]

\* The worker session does not look inside the pair object: the class
\* attribute has the value of its definition, `rotation = [0, 0]`.
NoCall == [op |-> "none"]

Init ==
    /\ WorkerInit
    /\ rotation = <<0, 0>>
    /\ pairs = <<>>
    /\ call = NoCall

\* The positions of a chessboard session, from the loop over the count to the
\* clearing of the flag.
SessionPcs == {"cb_for", "cb_verify", "cb_while", "cb_get", "cb_show", "cb_find",
               "cb_save_left", "cb_save_right", "cb_pause", "cb_pshow", "cb_clear"}

\* ------------------------------------------------------------ Worker.run

\* An exception leaves run(): the thread ends without reaching kill().
Raise(e) ==
    /\ wpc' = "crashed"
    /\ raised' = [raised EXCEPT !["worker"] = e]
    /\ rangeN' = 0 /\ i' = 0
    /\ found_chessboard' = <<FALSE, FALSE>>
    /\ frames' = NoFrames
    /\ elapsed' = 0

\* `while self.running:`
WorkerWhileRunning ==
    /\ wpc = "top"
    /\ IF running
       THEN /\ wpc' = (IF version = "UI" THEN "if_cb" ELSE "elif_iv")
            /\ UNCHANGED observedStop
       ELSE /\ wpc' = "kill"
            /\ observedStop' = TRUE
    /\ UNCHANGED <<session, raised, config, rangeN, i, found_chessboard, frames, elapsed,
                   capK, mainv, searchAcq, firstBoth, pairFiles, sessNums,
                   capAcq, capLog, requested>>

\* `if self.captureChessboards:` tested before intervalEnabled, the tests swapped
WorkerIfChessboards_intervalFirst ==
    /\ wpc = "if_cb"
    /\ IF intervalEnabled
       THEN /\ wpc' = "iv_wait"
            /\ UNCHANGED <<rangeN, sessNums, requested>>
       ELSE IF captureChessboards
       THEN /\ wpc' = "cb_for"
            /\ rangeN' = chessboardCount
            /\ sessNums' = <<>>
            /\ requested' = "none"
       ELSE /\ wpc' = "preview"
            /\ UNCHANGED <<rangeN, sessNums, requested>>
    /\ UNCHANGED <<session, raised, config, i, found_chessboard, frames, elapsed,
                   capK, mainv, observedStop, searchAcq, firstBoth, pairFiles,
                   capAcq, capLog>>

\* `if self.captureChessboards:` and, when set, `range(self.chessboardCount)`
WorkerIfChessboards ==
    /\ wpc = "if_cb"
    /\ IF captureChessboards
       THEN /\ wpc' = "cb_for"
            /\ rangeN' = chessboardCount
            /\ sessNums' = <<>>
            /\ requested' = "none"
       ELSE /\ wpc' = "elif_iv"
            /\ UNCHANGED <<rangeN, sessNums, requested>>
    /\ UNCHANGED <<session, raised, config, i, found_chessboard, frames, elapsed,
                   capK, mainv, observedStop, searchAcq, firstBoth, pairFiles,
                   capAcq, capLog>>

\* `for i in range(...)`: the next i, or the loop is exhausted
WorkerForNext ==
    /\ wpc = "cb_for"
    /\ wpc' = (IF i < rangeN THEN "cb_verify" ELSE "cb_clear")
    /\ UNCHANGED <<session, raised, config, rangeN, i, found_chessboard, frames, elapsed,
                   capK, mainv, hist>>

\* captureAndSaveChessboardPair: verifyPathExists, found_chessboard = [False, False]
WorkerVerifyPath ==
    /\ wpc = "cb_verify"
    /\ IF chessboardCapturePath = ""
       THEN /\ Raise("ValueError")
            /\ UNCHANGED <<searchAcq, firstBoth, pairFiles>>
       ELSE /\ wpc' = "cb_while"
            /\ found_chessboard' = <<FALSE, FALSE>>
            /\ searchAcq' = 0 /\ firstBoth' = 0 /\ pairFiles' = <<>>
            /\ UNCHANGED <<rangeN, i, frames, elapsed, raised>>
    /\ UNCHANGED <<session, config, capK, mainv, observedStop, requested, sessNums,
                   capAcq, capLog>>

\* `while not all(found_chessboard):`
WorkerSearchTest ==
    /\ wpc = "cb_while"
    /\ wpc' = (IF found_chessboard[1] /\ found_chessboard[2]
               THEN "cb_save_left" ELSE "cb_get")
    /\ UNCHANGED <<session, raised, config, rangeN, i, found_chessboard, frames, elapsed,
                   capK, mainv, hist>>

\* One more get_frames call of the search; dl, dr: the board is visible in the
\* left / right frame of the pair it returns.
CountSearchAcq(dl, dr) ==
    /\ searchAcq' = Bump(searchAcq)
    /\ firstBoth' = (IF firstBoth = 0 /\ dl /\ dr THEN Bump(searchAcq) ELSE firstBoth)

\* `frames = self.pair.get_frames()`
WorkerSearchGet ==
    /\ wpc = "cb_get"
    /\ IF DevicesOpen
       THEN \E dl \in BOOLEAN, dr \in BOOLEAN :
               /\ CountSearchAcq(dl, dr)
               /\ frames' = [acq |-> Bump(searchAcq), det |-> <<dl, dr>>]
               /\ wpc' = "cb_show"
               /\ UNCHANGED <<rangeN, i, found_chessboard, elapsed, raised>>
       ELSE /\ Raise("AttributeError")
            /\ UNCHANGED <<searchAcq, firstBoth>>
    /\ UNCHANGED <<session, config, capK, mainv, observedStop, requested, pairFiles, sessNums,
                   capAcq, capLog>>

\* `if show: self.show_frames()`: StereoPair.show_frames calls get_frames again
\* and displays that second pair
WorkerSearchShow ==
    /\ wpc = "cb_show"
    /\ IF DevicesOpen
       THEN \E dl \in BOOLEAN, dr \in BOOLEAN :
               /\ CountSearchAcq(dl, dr)
               /\ wpc' = "cb_find"
               /\ UNCHANGED <<rangeN, i, found_chessboard, frames, elapsed, raised>>
       ELSE /\ Raise("AttributeError")
            /\ UNCHANGED <<searchAcq, firstBoth>>
    /\ UNCHANGED <<session, config, capK, mainv, observedStop, requested, pairFiles, sessNums,
                   capAcq, capLog>>

\* `for i, frame in enumerate(frames): found_chessboard[i], corners = ...`
WorkerSearchFind ==
    /\ wpc = "cb_find"
    /\ found_chessboard' = FindChessboards(found_chessboard, frames.det)
    /\ wpc' = "cb_while"
    /\ UNCHANGED <<session, raised, config, rangeN, i, frames, elapsed, capK, mainv, hist>>

\* One pass of `for side, frame in zip(("left", "right"), frames):` the file name
\* is built from self.chessboardCount as it is at that moment.
ChessboardFile(s) ==
    [side |-> sideName(s),
     num |-> FileNumber(i),
     len |-> ZFillLen(FileNumber(i), Digits(chessboardCount)),
     acq |-> frames.acq,
     det |-> frames.det]

WorkerSave(s) ==
    /\ wpc = (IF s = 0 THEN "cb_save_left" ELSE "cb_save_right")
    /\ pairFiles' = Append(pairFiles, ChessboardFile(s))
    /\ sessNums' = Append(sessNums, <<sideName(s), FileNumber(i)>>)
    /\ wpc' = (IF s = 0 THEN "cb_save_right" ELSE "cb_pause")
    /\ elapsed' = 0
    /\ UNCHANGED <<session, raised, config, rangeN, i, found_chessboard, frames,
                   capK, mainv, observedStop, requested, searchAcq, firstBoth, capAcq, capLog>>

\* `start = time.time()` / `while time.time() < start + 2:`
WorkerPauseTest ==
    /\ wpc = "cb_pause"
    /\ IF Waiting(elapsed, PauseSeconds)
       THEN /\ wpc' = "cb_pshow"
            /\ UNCHANGED <<i, elapsed, found_chessboard, frames>>
       ELSE /\ wpc' = "cb_for"
            /\ i' = i + 1
            /\ elapsed' = 0
            /\ found_chessboard' = <<FALSE, FALSE>>
            /\ frames' = NoFrames
    /\ UNCHANGED <<session, raised, config, rangeN, capK, mainv, hist>>

\* self.show_frames(): one acquisition, displayed
ShowFrames(from, to) ==
    /\ wpc = from
    /\ IF DevicesOpen
       THEN /\ wpc' = to
            /\ UNCHANGED <<rangeN, i, found_chessboard, frames, elapsed, raised>>
       ELSE Raise("AttributeError")
    /\ UNCHANGED <<session, config, capK, mainv, hist>>

WorkerPauseShow == ShowFrames("cb_pshow", "cb_pause")

\* `self.captureChessboards = False`
WorkerClearFlag ==
    /\ wpc = "cb_clear"
    /\ captureChessboards' = FALSE
    /\ wpc' = "top"
    /\ rangeN' = 0 /\ i' = 0
    /\ UNCHANGED <<session, raised, running, intervalEnabled, interval, chessboardCount,
                   chessboardCapturePath, imagesPath, found_chessboard, frames,
                   elapsed, capK, mainv, hist>>

\* The elif that starts a countdown whatever intervalEnabled holds
WorkerElifInterval_ignoreFlag ==
    /\ wpc = "elif_iv"
    /\ wpc' = "iv_wait"
    /\ elapsed' = 0
    /\ UNCHANGED <<session, raised, config, rangeN, i, found_chessboard, frames,
                   capK, mainv, hist>>

\* `elif self.intervalEnabled:` then `start = time.time()`
WorkerElifInterval ==
    /\ wpc = "elif_iv"
    /\ wpc' = (IF intervalEnabled THEN "iv_wait" ELSE "preview")
    /\ elapsed' = 0
    /\ UNCHANGED <<session, raised, config, rangeN, i, found_chessboard, frames,
                   capK, mainv, hist>>

\* `while time.time() < start + self.interval:` else `self.captureBoth()`
WorkerIntervalTest ==
    /\ wpc = "iv_wait"
    /\ IF Waiting(elapsed, interval)
       THEN /\ wpc' = "iv_show"
            /\ UNCHANGED <<elapsed, capK, capAcq, capLog>>
       ELSE /\ wpc' = "cap_get"
            /\ elapsed' = 0
            /\ capK' = [capK EXCEPT !["worker"] = 0]
            /\ capAcq' = [capAcq EXCEPT !["worker"] = 0]
            /\ capLog' = [capLog EXCEPT !["worker"] = <<>>]
    /\ UNCHANGED <<session, raised, config, rangeN, i, found_chessboard, frames,
                   mainv, observedStop, requested, searchAcq, firstBoth, pairFiles, sessNums>>

WorkerIntervalShow == ShowFrames("iv_show", "iv_wait")

\* `else: self.show_frames()`
WorkerPreview == ShowFrames("preview", "top")

\* kill() that leaves the thread running: the loop body goes on
WorkerKill_noTerminate ==
    /\ wpc = "kill"
    /\ running' = FALSE
    /\ wpc' = "elif_iv"
    /\ UNCHANGED <<session, raised, intervalEnabled, captureChessboards, interval,
                   chessboardCount, chessboardCapturePath, imagesPath,
                   rangeN, i, found_chessboard, frames, elapsed, capK, mainv, hist>>

\* Worker.kill: `self.running = False; self.terminate()`
WorkerKill ==
    /\ wpc = "kill"
    /\ running' = FALSE
    /\ wpc' = "stopped"
    /\ UNCHANGED <<session, raised, intervalEnabled, captureChessboards, interval,
                   chessboardCount, chessboardCapturePath, imagesPath,
                   rangeN, i, found_chessboard, frames, elapsed, capK, mainv, hist>>

\* time.time() advances while a countdown is being evaluated
Tick ==
    /\ wpc \in {"cb_pause", "cb_pshow", "iv_wait", "iv_show"}
    /\ elapsed < MaxElapsed
    /\ elapsed' = elapsed + 1
    /\ UNCHANGED <<session, raised, config, wpc, rangeN, i, found_chessboard, frames,
                   capK, mainv, hist>>

\* ------------------------------------------- captureBoth / captureImage

\* The file cv2.imwrite is given by captureImage(cam) of StereoWorkbench.py:
\* named camName[cam], holding images[cam] of the get_frames call just made.
CaptureFile(t) ==
    [label |-> camName(capK[t]), frame |-> capK[t], acq |-> capAcq[t]]

\* `images = self.pair.get_frames()`
CaptureGet(t) ==
    /\ capAcq' = [capAcq EXCEPT ![t] = capAcq[t] + 1]
    /\ UNCHANGED <<capK, capLog>>

\* `cv2.imwrite(self.getImageFilepath(path, cam), images[...])`.  WorkbenchUI.py
\* names `cam`, which captureImage(self, isLeft) does not define: NameError
\* before anything is written.  StereoWorkbench.py raises ValueError for an
\* empty path and writes otherwise.
CaptureFails == version = "UI" \/ imagesPath = ""

\* What a failing captureImage raises.  WorkbenchUI.py evaluates the undefined
\* name `cam` while building the arguments of getImageFilepath, before that
\* function can test the path; StereoWorkbench.py reaches the path test.
CaptureError == IF version = "UI" THEN "NameError" ELSE "ValueError"

CaptureWrite(t) ==
    /\ capLog' = [capLog EXCEPT ![t] = Append(capLog[t], CaptureFile(t))]
    /\ capK' = [capK EXCEPT ![t] = 1]
    /\ UNCHANGED capAcq

\* captureBoth returns: its locals are gone
CaptureReturn(t) ==
    /\ capK' = [capK EXCEPT ![t] = 0]
    /\ capAcq' = [capAcq EXCEPT ![t] = 0]
    /\ capLog' = [capLog EXCEPT ![t] = <<>>]

WorkerCaptureGet ==
    /\ wpc = "cap_get"
    /\ IF DevicesOpen
       THEN /\ CaptureGet("worker")
            /\ wpc' = "cap_write"
            /\ UNCHANGED <<rangeN, i, found_chessboard, frames, elapsed, raised>>
       ELSE /\ Raise("AttributeError")
            /\ CaptureReturn("worker")
    /\ UNCHANGED <<session, config, mainv, observedStop, requested, searchAcq, firstBoth,
                   pairFiles, sessNums>>

WorkerCaptureWrite ==
    /\ wpc = "cap_write"
    /\ IF CaptureFails
       THEN /\ Raise(CaptureError)
            /\ CaptureReturn("worker")
       ELSE /\ CaptureWrite("worker")
            /\ wpc' = (IF capK["worker"] = 0 THEN "cap_get" ELSE "cap_done")
            /\ UNCHANGED <<rangeN, i, found_chessboard, frames, elapsed, raised>>
    /\ UNCHANGED <<session, config, mainv, observedStop, requested, searchAcq, firstBoth,
                   pairFiles, sessNums>>

\* captureBoth returns to run(): the next loop iteration
WorkerCaptureDone ==
    /\ wpc = "cap_done"
    /\ wpc' = "top"
    /\ CaptureReturn("worker")
    /\ UNCHANGED <<session, raised, config, rangeN, i, found_chessboard, frames, elapsed,
                   mainv, observedStop, requested, searchAcq, firstBoth, pairFiles, sessNums>>

\* ------------------------------------------------------------ front end
\* Slots run one at a time in the event loop of app.exec_().
FrontIdle == mpc = "exec" /\ fpc = "idle"

\* One more setter call or capture click, while the run's budget lasts.
FrontOp ==
    /\ FrontIdle
    /\ frontOps < MaxFrontOps
    /\ frontOps' = frontOps + 1
    /\ UNCHANGED <<fpc, mpc, released>>

setIntervalEnabled(enabled) ==
    /\ FrontOp
    /\ intervalEnabled' = enabled
    /\ UNCHANGED <<session, raised, running, captureChessboards, interval, chessboardCount,
                   chessboardCapturePath, imagesPath, wlocals, capK, hist>>

setInterval(v) ==
    /\ FrontOp
    /\ interval' = v
    /\ UNCHANGED <<session, raised, running, intervalEnabled, captureChessboards,
                   chessboardCount, chessboardCapturePath, imagesPath, wlocals,
                   capK, hist>>

setChessboardCount(count) ==
    /\ FrontOp /\ version = "UI"
    /\ chessboardCount' = count
    /\ UNCHANGED <<session, raised, running, intervalEnabled, captureChessboards, interval,
                   chessboardCapturePath, imagesPath, wlocals, capK, hist>>

setChessboardCapturePath(path) ==
    /\ FrontOp /\ version = "UI"
    /\ chessboardCapturePath' = path
    /\ UNCHANGED <<session, raised, running, intervalEnabled, captureChessboards, interval,
                   chessboardCount, imagesPath, wlocals, capK, hist>>

\* setImagesPath (WorkbenchUI.py) / setDirPath (StereoWorkbench.py)
setImagesPath(path) ==
    /\ FrontOp
    /\ imagesPath' = path
    /\ UNCHANGED <<session, raised, running, intervalEnabled, captureChessboards, interval,
                   chessboardCount, chessboardCapturePath, wlocals, capK, hist>>

\* setCaptureChessboards that records the click and leaves the flag alone
setCaptureChessboards_noFlag ==
    /\ FrontOp /\ version = "UI"
    /\ requested' = (IF wpc \in SessionPcs THEN "busy" ELSE "idle")
    /\ UNCHANGED <<session, raised, config, wlocals, capK, observedStop,
                   searchAcq, firstBoth, pairFiles, sessNums, capAcq, capLog>>

\* captureChessboardButton.clicked: setCaptureChessboards(True)
setCaptureChessboards ==
    /\ FrontOp /\ version = "UI"
    /\ captureChessboards' = TRUE
    /\ requested' = (IF wpc \in SessionPcs THEN "busy" ELSE "idle")
    /\ UNCHANGED <<session, raised, running, intervalEnabled, interval, chessboardCount,
                   chessboardCapturePath, imagesPath, wlocals, capK, observedStop,
                   searchAcq, firstBoth, pairFiles, sessNums, capAcq, capLog>>

\* bothCaptureButton.clicked: worker.captureBoth() on the front-end thread
FrontCaptureBoth ==
    /\ FrontIdle
    /\ frontOps < MaxFrontOps
    /\ frontOps' = frontOps + 1
    /\ fpc' = "cap_get"
    /\ capK' = [capK EXCEPT !["frontend"] = 0]
    /\ capAcq' = [capAcq EXCEPT !["frontend"] = 0]
    /\ capLog' = [capLog EXCEPT !["frontend"] = <<>>]
    /\ raised' = [raised EXCEPT !["frontend"] = "none"]
    /\ UNCHANGED <<session, config, wlocals, mpc, released, observedStop, requested,
                   searchAcq, firstBoth, pairFiles, sessNums>>

\* get_frames on the front-end thread, `for i in range(len(self.captures))`:
\* the first device has been read, the second not yet
FrontCaptureRead ==
    /\ fpc = "cap_get"
    /\ fpc' = "cap_read"
    /\ UNCHANGED <<session, raised, config, wlocals, capK, mpc, released, frontOps, hist>>

\* the second device is read and get_frames returns the pair
FrontCaptureGet ==
    /\ fpc = "cap_read"
    /\ CaptureGet("frontend")
    /\ fpc' = "cap_write"
    /\ UNCHANGED <<session, raised, config, wlocals, mpc, released, frontOps, observedStop, requested,
                   searchAcq, firstBoth, pairFiles, sessNums>>

\* An exception raised in a slot is reported and the event loop goes on.
FrontCaptureWrite ==
    /\ fpc = "cap_write"
    /\ IF CaptureFails
       THEN /\ fpc' = "idle"
            /\ raised' = [raised EXCEPT !["frontend"] = CaptureError]
            /\ CaptureReturn("frontend")
       ELSE /\ CaptureWrite("frontend")
            /\ fpc' = (IF capK["frontend"] = 0 THEN "cap_get" ELSE "cap_done")
            /\ UNCHANGED raised
    /\ UNCHANGED <<session, config, wlocals, mpc, released, frontOps, observedStop, requested,
                   searchAcq, firstBoth, pairFiles, sessNums>>

FrontCaptureDone ==
    /\ fpc = "cap_done"
    /\ fpc' = "idle"
    /\ CaptureReturn("frontend")
    /\ UNCHANGED <<session, raised, config, wlocals, mpc, released, frontOps, observedStop, requested,
                   searchAcq, firstBoth, pairFiles, sessNums>>

\* calibrateButton.clicked: worker.calibrate() runs on the front-end thread,
\* turning on the chessboard capture as well
FrontCalibrate_startsCapture ==
    /\ FrontIdle
    /\ version = "UI"
    /\ frontOps < MaxFrontOps
    /\ frontOps' = frontOps + 1
    /\ fpc' = "calibrate"
    /\ captureChessboards' = TRUE
    /\ UNCHANGED <<session, raised, running, intervalEnabled, interval, chessboardCount,
                   chessboardCapturePath, imagesPath, wlocals, capK, mpc, released, hist>>

\* calibrateButton.clicked: worker.calibrate() runs on the front-end thread.
\* It reads chessboardRows, chessboardColumns, chessboardSize and the two
\* paths, lists the files of the chessboard directory and hands them to
\* calibrate_folder; it takes no lock and writes no attribute of the worker.
FrontCalibrate ==
    /\ FrontIdle
    /\ version = "UI"
    /\ frontOps < MaxFrontOps
    /\ frontOps' = frontOps + 1
    /\ fpc' = "calibrate"
    /\ UNCHANGED <<session, raised, config, wlocals, capK, mpc, released, hist>>

\* calibrate_folder returns
FrontCalibrateDone ==
    /\ fpc = "calibrate"
    /\ fpc' = "idle"
    /\ UNCHANGED <<session, raised, config, wlocals, capK, mpc, released, frontOps, hist>>

\* renderButton.clicked: worker.render(left, right, output) runs on the
\* front-end thread.  It reads the two stills with cv2.imread and builds its
\* own CalibratedPair(None, ...), which opens no device.
FrontRender ==
    /\ FrontIdle
    /\ version = "UI"
    /\ frontOps < MaxFrontOps
    /\ frontOps' = frontOps + 1
    /\ fpc' = "render"
    /\ UNCHANGED <<session, raised, config, wlocals, capK, mpc, released, hist>>

\* write_ply returns
FrontRenderDone ==
    /\ fpc = "render"
    /\ fpc' = "idle"
    /\ UNCHANGED <<session, raised, config, wlocals, capK, mpc, released, frontOps, hist>>

\* MainWindow.closeEvent: the window closes and app.exec_() returns
closeEvent ==
    /\ FrontIdle
    /\ running' = FALSE
    /\ mpc' = "closed"
    /\ UNCHANGED <<session, raised, intervalEnabled, captureChessboards, interval,
                   chessboardCount, chessboardCapturePath, imagesPath, wlocals,
                   capK, fpc, released, frontOps, hist>>

\* --------------------------------------------------------------- main()

\* An exception leaves the with-block while the event loop runs.
MainRaise ==
    /\ FrontIdle
    /\ mpc' = "raised"
    /\ UNCHANGED <<session, raised, config, wlocals, capK, fpc, released, frontOps, hist>>

\* StereoPair.__exit__ without the release loop
StereoPairExit_noRelease ==
    /\ mpc \in {"closed", "raised"}
    /\ mpc' = "exited"
    /\ UNCHANGED <<session, raised, config, wlocals, capK, fpc, released, frontOps, hist>>

\* StereoPair.__exit__, reached by sys.exit(app.exec_()) and by any exception:
\* `for capture in self.captures: capture.release()`
StereoPairExit ==
    /\ mpc \in {"closed", "raised"}
    /\ released' = released + 1
    /\ mpc' = "exited"
    /\ UNCHANGED <<session, raised, config, wlocals, capK, fpc, frontOps, hist>>

\* --------------------------------------------------------- specification
WorkerStep ==
    \/ WorkerWhileRunning
    \/ WorkerIfChessboards
    \/ WorkerForNext
    \/ WorkerVerifyPath
    \/ WorkerSearchTest
    \/ WorkerSearchGet
    \/ WorkerSearchShow
    \/ WorkerSearchFind
    \/ WorkerSave(0)
    \/ WorkerSave(1)
    \/ WorkerPauseTest
    \/ WorkerPauseShow
    \/ WorkerClearFlag
    \/ WorkerElifInterval
    \/ WorkerIntervalTest
    \/ WorkerIntervalShow
    \/ WorkerPreview
    \/ WorkerCaptureGet
    \/ WorkerCaptureWrite
    \/ WorkerCaptureDone
    \/ WorkerKill

FrontEndStep ==
    \/ \E b \in BOOLEAN : setIntervalEnabled(b)
    \/ \E v \in Intervals : setInterval(v)
    \/ \E c \in Counts : setChessboardCount(c)
    \/ \E p \in Paths : setChessboardCapturePath(p)
    \/ \E p \in Paths : setImagesPath(p)
    \/ setCaptureChessboards
    \/ FrontCaptureBoth
    \/ FrontCaptureRead
    \/ FrontCaptureGet
    \/ FrontCaptureWrite
    \/ FrontCaptureDone
    \/ FrontCalibrate
    \/ FrontCalibrateDone
    \/ FrontRender
    \/ FrontRenderDone
    \/ closeEvent

MainStep == MainRaise \/ StereoPairExit

Next == WorkerStep \/ FrontEndStep \/ MainStep \/ Tick

Spec == Init /\ [][Next]_vars

\* The worker thread is scheduled and the clock advances.
FairSpec == Spec /\ WF_vars(WorkerStep) /\ WF_vars(Tick)

\* =========================================== transformed_stereo_cameras.py
\* Images are modelled pixel by pixel: px maps every position <<x, y>> of the
\* canvas to the device pixel <<device, x, y>> shown there, or to Black where
\* warpAffine fills the border; rect says whether the calibration's remap was
\* applied.

PairIds == 1..2
Devices == 0..1
\* Rotations of a quarter turn: their sine and cosine are integers, so the
\* arithmetic of rotate_bound is exact.
Angles == {0, 90, 180, 270}

Black == <<0 - 1, 0, 0>>

Positions(w, h) == (0..(w - 1)) \X (0..(h - 1))

\* capture.read()[1] of device d when the device delivers w x h frames
Frame(d, w, h) ==
    [w |-> w, h |-> h, rect |-> FALSE,
     px |-> [p \in Positions(w, h) |-> <<d, p[1], p[2]>>]]

Abs(n) == IF n < 0 THEN 0 - n ELSE n
Cos(angle) == CASE angle = 0 -> 1 [] angle = 90 -> 0 [] angle = 180 -> 0 - 1 [] angle = 270 -> 0
Sin(angle) == CASE angle = 0 -> 0 [] angle = 90 -> 1 [] angle = 180 -> 0 [] angle = 270 -> 0 - 1

\* rotate_bound(image, angle).  M = getRotationMatrix2D((cX, cY), -angle, 1.0)
\* is [[a, b, (1-a)cX - b cY], [-b, a, b cX + (1-a)cY]] with a = cos(-angle),
\* b = sin(-angle); its translation column is then moved by (nW/2 - cX,
\* nH/2 - cY), integer divisions.  warpAffine(image, M, (nW, nH)) shows at
\* destination d the source pixel at the inverse image of d, black outside.
rotate_bound(image, angle) ==
    LET w == image.w
        h == image.h
        cX == w \div 2
        cY == h \div 2
        a == Cos(angle)
        b == 0 - Sin(angle)
        nW == h * Abs(b) + w * Abs(a)
        nH == h * Abs(a) + w * Abs(b)
        tx == (1 - a) * cX - b * cY + ((nW \div 2) - cX)
        ty == b * cX + (1 - a) * cY + ((nH \div 2) - cY)
        src(d) == <<a * (d[1] - tx) - b * (d[2] - ty),
                    b * (d[1] - tx) + a * (d[2] - ty)>>
    IN  [w |-> nW, h |-> nH, rect |-> image.rect,
         px |-> [d \in Positions(nW, nH) |->
                   IF src(d) \in Positions(w, h) THEN image.px[src(d)]
                                                 ELSE Black]]

\* ---------------------------------------------------------------- StereoPair
DeviceLists == {<<0, 1>>, <<0, 0>>}
Classes == {"StereoPair", "CalibratedPair"}

\* StereoPair.__init__(devices): the attributes the new instance binds.  With
\* one device for both sides the instance attribute get_frames is bound to
\* get_frames_singleimage; "unbound" leaves the name to the class.
StereoPairInit(cls, devices) ==
    IF devices[1] # devices[2]
    THEN [cls |-> cls, captures |-> devices, get_frames |-> "unbound"]
    ELSE [cls |-> cls, captures |-> <<devices[1]>>,
          get_frames |-> "get_frames_singleimage"]

\* `self.rotation` of an instance: no instance binds the name, so the lookup
\* finds the class attribute StereoPair.rotation, one list for all instances
\* of StereoPair and of its subclasses.
SelfRotation(p) == rotation

\* `width/2` of two integers
HalfWidth_ceil(width) == (width + 1) \div 2
HalfWidth(width) == width \div 2

\* frame[:, from:to, :]
Columns(frame, from, to) ==
    [w |-> to - from, h |-> frame.h, rect |-> frame.rect,
     px |-> [p \in Positions(to - from, frame.h) |->
               frame.px[<<p[1] + from, p[2]>>]]]

\* StereoPair.get_frames_singleimage, on the frame read from captures[0]
get_frames_singleimage(reads) ==
    LET frame == reads[1]
        width == frame.w
    IN  <<Columns(frame, 0, HalfWidth(width)),
          Columns(frame, HalfWidth(width), width)>>

\* StereoPair.get_frames, on the frames read from the captures
StereoPair_get_frames(p, reads) ==
    [k \in 1..Len(reads) |-> rotate_bound(reads[k], SelfRotation(p)[k])]

\* calibration.rectify(frames): one remapped image per side
rectify(images) == [k \in 1..Len(images) |-> [images[k] EXCEPT !.rect = TRUE]]

\* CalibratedPair.get_frames
CalibratedPair_get_frames(p, reads) == rectify(StereoPair_get_frames(p, reads))

\* The call `pair.get_frames()`: an instance attribute hides the methods of
\* the class and of its bases.
get_frames_call(p, reads) ==
    IF pairs[p].get_frames = "get_frames_singleimage"
    THEN get_frames_singleimage(reads)
    ELSE IF pairs[p].cls = "CalibratedPair"
         THEN CalibratedPair_get_frames(p, reads)
         ELSE StereoPair_get_frames(p, reads)

\* ------------------------------------------------ point cloud (render path)
\* Depth of a back-projected pixel: finite, or infinite where the block
\* matcher found no match.
Depths == {"inf", "finite"}

\* cv2.cvtColor(image, cv2.COLOR_BGR2RGB): every pixel with its channels
\* reordered
BGR2RGB(image) == [p \in DOMAIN image.px |-> <<"RGB", image.px[p]>>]

\* PointCloud(points, colors): both arrays reshaped to one row per pixel, in
\* row-major order
PointCloud(points, colors, w, h) ==
    [k \in 1..(w * h) |->
        LET p == <<(k - 1) % w, (k - 1) \div w>>
        IN  [xyz |-> points[p], color |-> colors[p]]]

\* CalibratedPair.get_point_cloud with the colours of the right image
get_point_cloud_rightColors(pair, depth) ==
    LET points == [p \in Positions(pair[1].w, pair[1].h) |->
                     [pos |-> p, z |-> depth[p]]]
        colors == BGR2RGB(pair[2])
    IN  PointCloud(points, colors, pair[1].w, pair[1].h)

\* CalibratedPair.get_point_cloud(pair); depth is what block_matcher.get_3d
\* makes of the disparity of the pair, one point per pixel
get_point_cloud(pair, depth) ==
    LET points == [p \in Positions(pair[1].w, pair[1].h) |->
                     [pos |-> p, z |-> depth[p]]]
        colors == BGR2RGB(pair[1])
    IN  PointCloud(points, colors, pair[1].w, pair[1].h)

\* PointCloud.filter_infinity: the points of finite depth, with their colours
filter_infinity(cloud) == SelectSeq(cloud, LAMBDA r : r.xyz.z # "inf")

\* PointCloud.write_ply: one record per point, in order
write_ply(cloud) == cloud

\* Worker.render on two stills of w x h pixels; the result is the file written
render(w, h, depth) ==
    LET image_pair == <<Frame("left", w, h), Frame("right", w, h)>>
        rectified_pair == rectify(image_pair)
        points == get_point_cloud(rectified_pair, depth)
    IN  write_ply(filter_infinity(points))

\* ------------------------------------------- calls on pairs and functions
\* A second specification: pair objects of both classes and both device
\* modes exist, and a client calls their methods and the pure functions with
\* frames of every modelled size.  The worker session stands still.
workerv == <<version, config, wlocals, capK, mainv, hist, raised>>

PairInit ==
    /\ WorkerInit
    /\ version = "SW" /\ interval = 0
    /\ rotation = <<0, 0>>
    /\ pairs \in [PairIds -> {StereoPairInit(c, d) : c \in Classes, d \in DeviceLists}]
    /\ call = NoCall

\* pair.set_rotation(isLeft, angle): `self.rotation[0 if isLeft else 1] = rotation`
\* assigns to an element of the list that self.rotation denotes
set_rotation(p, isLeft, angle) ==
    /\ rotation' = [SelfRotation(p) EXCEPT ![IF isLeft THEN 1 ELSE 2] = angle]
    /\ call' = [op |-> "set_rotation", pair |-> p, isLeft |-> isLeft, angle |-> angle]
    /\ UNCHANGED <<pairs, workerv>>

\* pair.get_frames() while the devices deliver w x h frames
get_frames(p, w, h) ==
    LET reads == [k \in 1..Len(pairs[p].captures) |->
                     Frame(pairs[p].captures[k], w, h)]
    IN  /\ call' = [op |-> "get_frames", pair |-> p, reads |-> reads,
                    out |-> get_frames_call(p, reads)]
        /\ UNCHANGED <<rotation, pairs, workerv>>

PairNext ==
    \/ \E p \in PairIds, isLeft \in BOOLEAN, angle \in Angles :
          set_rotation(p, isLeft, angle)
    \/ \E p \in PairIds, w \in 1..MaxW, h \in 1..MaxH : get_frames(p, w, h)

PairSpec == PairInit /\ [][PairNext]_vars

\* A third specification: a client applies the pure functions to images of
\* every modelled size; no pair object is involved.
FunInit ==
    /\ WorkerInit
    /\ version = "SW" /\ interval = 0
    /\ rotation = <<0, 0>>
    /\ pairs = <<>>
    /\ call = NoCall

\* rotate_bound(image, angle) on a w x h image
RotateBoundCall(w, h, angle) ==
    /\ call' = [op |-> "rotate_bound", image |-> Frame(0, w, h), angle |-> angle,
                out |-> rotate_bound(Frame(0, w, h), angle)]
    /\ UNCHANGED <<rotation, pairs, workerv>>

\* worker.render(left, right, output) on stills of n pixels
RenderCall(n, depth) ==
    /\ call' = [op |-> "render", n |-> n, depth |-> depth,
                out |-> render(n, 1, depth)]
    /\ UNCHANGED <<rotation, pairs, workerv>>

FunNext ==
    \/ \E w \in 1..MaxW, h \in 1..MaxH, angle \in Angles : RotateBoundCall(w, h, angle)
    \/ \E n \in 1..MaxPoints : \E depth \in [Positions(n, 1) -> Depths] :
          RenderCall(n, depth)

FunSpec == FunInit /\ [][FunNext]_vars

\* ================================================================ claims

\* C1: each test of the if / elif chain at the top of the loop decides by strict
\* priority: a set chessboard flag starts a chessboard session whatever
\* intervalEnabled is; otherwise an enabled interval mode starts one countdown;
\* otherwise the worker makes exactly one preview step and is back at the loop test.
C1_ModePriority ==
    [][/\ (wpc = "if_cb" /\ wpc' # wpc) =>
              wpc' = (IF captureChessboards THEN "cb_for" ELSE "elif_iv")
       /\ (wpc = "elif_iv" /\ wpc' # wpc) =>
              wpc' = (IF intervalEnabled THEN "iv_wait" ELSE "preview")
       /\ (wpc = "preview" /\ wpc' # wpc) => wpc' \in {"top", "crashed"}
       /\ (wpc' = "cb_for" /\ wpc \notin SessionPcs) => captureChessboards
       /\ (wpc' = "iv_wait" /\ wpc \notin {"iv_wait", "iv_show"}) =>
              (intervalEnabled /\ wpc = "elif_iv")]_vars

\* a chessboard session has just started although interval mode is enabled too
C1_Witness ==
    /\ wpc = "cb_for" /\ i = 0 /\ sessNums = <<>>
    /\ captureChessboards /\ intervalEnabled /\ running

\* C2: once the loop test has read running = False, the worker is in kill() or
\* terminated, so it makes no further get_frames / show_frames call.
C2_NoAcquisitionAfterStop ==
    observedStop => wpc \in {"kill", "stopped"}

C2_Witness == observedStop /\ wpc = "stopped" /\ mpc = "exited"

\* C3: the devices are released exactly once, by the exit of the with-block, in
\* whatever state the worker is and whether the block is left by closeEvent or by
\* an exception.
C3_ReleasedExactlyOnce ==
    /\ released <= 1
    /\ (mpc = "exited") <=> (released = 1)

\* shutdown while the worker is in the pause of a chessboard session
C3_Witness == mpc = "exited" /\ released = 1 /\ wpc = "cb_pshow" /\ ~running

\* C4 (as claimed): after the stop signal the worker eventually reaches Stopped,
\* from every state of the loop, as long as frame acquisitions return (the
\* devices stay open).  A thread ended by an exception is counted as stopped
\* here, so that only a loop that keeps running refutes the claim.
C4_StopReachesStopped ==
    (~running) ~> (wpc \in {"stopped", "crashed"} \/ ~DevicesOpen)

\* The files a session of n pairs writes, in order: left_1, right_1, left_2, ...
ExpectedNums(n) ==
    [k \in 1..(2 * n) |-> <<sideName((k - 1) % 2), (k + 1) \div 2>>]

IsPrefix(a, b) ==
    /\ Len(a) <= Len(b)
    /\ \A k \in 1..Len(a) : a[k] = b[k]

\* C5: a chessboard session entered with count N writes the left/right pairs
\* numbered 1..N in increasing order and nothing else; when the loop over them is
\* exhausted all N pairs are written, and the worker's next step clears the
\* one-shot flag and returns to the loop test.
C5_SessionSavesAll ==
    /\ [](wpc \in SessionPcs => IsPrefix(sessNums, ExpectedNums(rangeN)))
    /\ [](wpc = "cb_clear" => sessNums = ExpectedNums(rangeN))
    /\ [][(wpc = "cb_clear" /\ wpc' # wpc) =>
              (wpc' = "top" /\ ~captureChessboards')]_vars

C5_Witness == wpc = "cb_clear" /\ rangeN > 1 /\ Len(sessNums) = 2 * rangeN

\* C6 (as claimed): every file of a session has its number padded to the number
\* of digits of the session's count, whatever setChessboardCount calls interleave.
C6_UniformWidth ==
    wpc \in SessionPcs =>
        \A k \in 1..Len(pairFiles) :
            pairFiles[k].len = ZFillLen(pairFiles[k].num, Digits(rangeN))

\* C7 (as claimed): when the k-th pair acquired by a search is the first to show
\* the board in both frames, the save follows exactly k acquisitions.
C7_OneAcquisitionPerAttempt ==
    (wpc = "cb_save_left" /\ searchAcq < MaxAcq) => searchAcq = firstBoth

\* C8: the two files of a saved chessboard pair are the left and the right frame
\* of one acquired pair, and the board was detected in both frames of that pair.
C8_SavedPairDetectedInBoth ==
    \A k \in 1..Len(pairFiles) :
        /\ pairFiles[k].det = <<TRUE, TRUE>>
        /\ pairFiles[k].acq = pairFiles[1].acq
        /\ pairFiles[k].acq >= 1
        /\ pairFiles[k].side = sideName(k - 1)

\* a pair saved by a search whose earlier attempt did not succeed
C8_Witness == Len(pairFiles) = 2 /\ pairFiles[1].acq >= 3

\* C9: with interval = 0 the countdown test fails at once: the worker's step
\* from the test is the call of captureBoth, never a preview.
C9_ZeroIntervalNoPreview ==
    [][(wpc = "iv_wait" /\ interval = 0 /\ wpc' # wpc) => wpc' = "cap_get"]_vars

C9_Witness ==
    /\ wpc = "cap_get" /\ interval = 0 /\ intervalEnabled
    /\ capK["worker"] = 0 /\ capAcq["worker"] = 0

\* C10 (as claimed): the left and the right file of one captureBoth hold the two
\* frames of a single get_frames call.
C10_SingleAcquisition ==
    \A t \in Threads :
        Len(capLog[t]) = 2 => capLog[t][1].acq = capLog[t][2].acq

\* A step in which thread t leaves the cv2.imwrite line of captureImage.
CaptureImageStep(t) ==
    IF t = "worker" THEN wpc = "cap_write" /\ wpc' # wpc
                    ELSE fpc = "cap_write" /\ fpc' # fpc

\* C11 (as claimed): a captureImage, alone or inside captureBoth, that finds
\* the configured capture directory empty fails with the invalid-path error
\* (ValueError "Path cannot be empty!") and writes no image.
C11_EmptyPathRejected ==
    [][\A t \in Threads :
          (CaptureImageStep(t) /\ imagesPath = "")
              => /\ raised'[t] = "ValueError"
                 /\ Len(capLog'[t]) <= Len(capLog[t])]_vars

\* C12 (as claimed): no path-validation error and no failed frame acquisition
\* ends the worker thread.
C12_ErrorsKeepWorkerRunning ==
    wpc = "crashed" => raised["worker"] \notin {"ValueError", "AttributeError"}

\* The front end is inside calibrate() or render().
OneShotPcs == {"calibrate", "render"}

\* C19: a step that starts or ends a calibrate() or render() changes no
\* attribute of the worker (running, intervalEnabled, captureChessboards, the
\* configuration), moves the worker nowhere, and acquires no frame from the
\* session's pair and releases no device.
C19_OneShotLeavesModeAlone ==
    [][((fpc \in OneShotPcs \/ fpc' \in OneShotPcs) /\ fpc' # fpc)
          => UNCHANGED <<config, wlocals, capK, searchAcq, capAcq, released>>]_vars

\* a calibrate() in progress while the worker, in chessboard mode, searches
C19_Witness ==
    fpc = "calibrate" /\ captureChessboards /\ wpc = "cb_find" /\ searchAcq >= 2

\* C20 (as claimed): while the worker is inside a chessboard-capture session
\* the front end is not inside calibrate() or render().
C20_OneShotSerialized == wpc \in SessionPcs => fpc \notin OneShotPcs

\* ------------------------------------------------ claims about pair objects

\* The calls the claims are about.
SingleDevice(p) == pairs[p].get_frames = "get_frames_singleimage"
Returned == call.op = "get_frames"

\* The unrotated left and right images of a get_frames call: the two frames
\* read, or the two halves of the single frame read.
Sides ==
    IF Len(call.reads) = 2 THEN call.reads ELSE get_frames_singleimage(call.reads)

SamePixels(a, b) == a.w = b.w /\ a.h = b.h /\ a.px = b.px

\* C13 (as claimed): in both device modes the pair returned by get_frames
\* shows the left image turned by the left camera's current rotation and the
\* right image turned by the right camera's, whatever set_rotation calls came
\* before.  (The left half of a one-column frame has no pixel to turn.)
C13_RotationApplied ==
    Returned =>
        \A k \in 1..2 :
            Sides[k].w >= 1 =>
                SamePixels(call.out[k], rotate_bound(Sides[k], rotation[k]))

\* C14 (as claimed): set_rotation for one camera of one pair changes only that
\* camera's rotation of that pair: the pair's other camera and every other
\* pair keep theirs.
C14_RotationOwned ==
    [][\A p \in PairIds, isLeft \in BOOLEAN, angle \in Angles :
          set_rotation(p, isLeft, angle) =>
              /\ SelfRotation(p)'[IF isLeft THEN 2 ELSE 1]
                    = SelfRotation(p)[IF isLeft THEN 2 ELSE 1]
              /\ \A q \in PairIds \ {p} : SelfRotation(q)' = SelfRotation(q)]_vars

\* C15: in single-device mode a frame of width W comes back as a left image
\* of floor(W/2) columns and a right image of the other W - floor(W/2), both
\* of the frame's height, and left followed by right is the frame, column by
\* column.
C15_SplitWidths ==
    (Returned /\ SingleDevice(call.pair)) =>
        LET source == call.reads[1]
            left == call.out[1]
            right == call.out[2]
        IN  /\ 2 * left.w <= source.w /\ source.w < 2 * left.w + 2
            /\ right.w = source.w - left.w
            /\ left.h = source.h /\ right.h = source.h
            /\ \A p \in Positions(source.w, source.h) :
                  source.px[p] = IF p[1] < left.w
                                 THEN left.px[p]
                                 ELSE right.px[<<p[1] - left.w, p[2]>>]

\* an odd width, and a width with more than one column per side
C15_Witness ==
    /\ Returned /\ SingleDevice(call.pair)
    /\ call.reads[1].w = 3 /\ call.out[1].w = 1 /\ call.out[2].w = 2

\* C16 (as claimed): whatever the device mode, get_frames of a CalibratedPair
\* returns two rectified images.
C16_AlwaysRectified ==
    (Returned /\ pairs[call.pair].cls = "CalibratedPair") =>
        /\ Len(call.out) = 2
        /\ \A k \in 1..2 : call.out[k].rect

\* ------------------------------------------------ claims about functions

\* C17: the file render writes holds exactly the points of finite depth, n - k
\* of them when k of the n points are infinite, in the order of the
\* back-projection, each with the RGB colour of its pixel of the left
\* rectified image.
C17_FinitePointsWritten ==
    call.op = "render" =>
        LET file == call.out
            infinite == {p \in Positions(call.n, 1) : call.depth[p] = "inf"}
        IN  /\ Len(file) = call.n - Cardinality(infinite)
            /\ \A j \in 1..Len(file) :
                  /\ file[j].xyz.z # "inf"
                  /\ file[j].xyz.pos \notin infinite
                  /\ file[j].color = <<"RGB", <<"left", file[j].xyz.pos[1],
                                                 file[j].xyz.pos[2]>>>>
            /\ \A j \in 1..Len(file), k \in 1..Len(file) :
                  j < k => file[j].xyz.pos[1] < file[k].xyz.pos[1]

\* a render with infinite points before, between and after the finite ones
C17_Witness ==
    /\ call.op = "render" /\ call.n >= 5 /\ Len(call.out) = 2
    /\ call.depth[<<0, 0>>] = "inf" /\ call.depth[<<1, 0>>] = "finite"
    /\ call.depth[<<2, 0>>] = "inf" /\ call.depth[<<4, 0>>] = "inf"

\* C18 (as claimed): the image rotate_bound returns has the size of the
\* bounding box of the turned source rectangle, (w, h) for angle 0 and (h, w)
\* for angle 90, and shows every pixel of the source.
C18_BoundingBoxNoCrop ==
    call.op = "rotate_bound" =>
        LET image == call.image
            out == call.out
        IN  /\ out.w = image.h * Abs(Sin(call.angle)) + image.w * Abs(Cos(call.angle))
            /\ out.h = image.h * Abs(Cos(call.angle)) + image.w * Abs(Sin(call.angle))
            /\ \A p \in Positions(image.w, image.h) :
                  \E d \in Positions(out.w, out.h) : out.px[d] = image.px[p]

\* ------------------------------------------------ claims about captures

\* C21 (as claimed): with a non-empty configured directory a captureImage,
\* alone or inside captureBoth, succeeds: it writes exactly one file, labelled
\* with its side and holding the frame of that side.
C21_CaptureWritesItsSide ==
    [][\A t \in Threads :
          (CaptureImageStep(t) /\ imagesPath # "")
              => /\ Len(capLog'[t]) = Len(capLog[t]) + 1
                 /\ capLog'[t][Len(capLog'[t])].label = camName(capK[t])
                 /\ capLog'[t][Len(capLog'[t])].frame = capK[t]]_vars

\* ------------------------------------- claims about requests and cancellation

\* C22 (as claimed): no chessboard-capture request is lost: while the worker
\* runs, a request that no session has started after, issued during a session or
\* not, still has its flag set.
C22_NoRequestLost ==
    (requested # "none" /\ wpc \notin {"kill", "stopped", "crashed"})
        => captureChessboards

\* C22 (amended): a request issued while no session is in progress keeps the
\* flag set until a session starts; a request issued during a session sets the
\* same flag, which that session clears when it completes.
C22_IdleRequestKept ==
    /\ requested = "idle" => captureChessboards
    /\ (requested = "busy" /\ wpc \in SessionPcs) => captureChessboards

C22_Witness ==
    /\ requested = "idle" /\ captureChessboards
    /\ wpc \in {"iv_wait", "iv_show", "preview"}

\* The positions of the worker inside its captureBoth.
CapturePcs == {"cap_get", "cap_write", "cap_done"}

\* C23 (as claimed): the dual capture at the end of a countdown does not start
\* when interval mode was disabled or the stop was raised during the countdown.
C23_NoCaptureAfterCancel ==
    [][(wpc = "iv_wait" /\ wpc' = "cap_get") => (intervalEnabled /\ running)]_vars

\* C23 (amended): a countdown starts only when the elif reads intervalEnabled
\* set; the worker's dual capture starts only when a countdown has expired, and
\* it starts then whatever intervalEnabled and running hold by that time; the
\* worker comes back to the loop test, where the stop is read, only after it.
C23_CancelSeenNextIteration ==
    [][/\ (wpc = "elif_iv" /\ wpc' = "iv_wait") => intervalEnabled
       /\ (wpc' \in CapturePcs /\ wpc \notin CapturePcs)
              => (wpc = "iv_wait" /\ wpc' = "cap_get" /\ ~Waiting(elapsed, interval))
       /\ (wpc = "iv_wait" /\ wpc' # wpc)
              => wpc' = (IF Waiting(elapsed, interval) THEN "iv_show" ELSE "cap_get")
       /\ (wpc \in {"iv_wait", "iv_show"} /\ wpc' # wpc)
              => wpc' \in {"iv_wait", "iv_show", "cap_get", "crashed"}]_vars

C23_Witness ==
    /\ wpc = "cap_get" /\ capAcq["worker"] = 0
    /\ ~intervalEnabled \/ ~running

\* ------------------------------------------ claims about the camera devices

\* The positions at which the worker's next step is a get_frames or show_frames
\* call on the session's pair.
AcquirePcs == {"cb_get", "cb_show", "cb_pshow", "iv_show", "preview", "cap_get"}

\* C24 (as claimed): the worker makes no get_frames / show_frames call once the
\* devices are released: every such call of the worker finds the devices open.
C24_NoAcquisitionAfterRelease ==
    [][(wpc \in AcquirePcs /\ wpc' # wpc) => DevicesOpen]_vars

\* C25 (as claimed): at most one acquisition on the session's pair is in
\* progress: the worker makes no get_frames / show_frames call while a
\* get_frames of a front-end capture is between its two device reads.
C25_OneAcquisitionAtATime ==
    [][(wpc \in AcquirePcs /\ wpc' # wpc) => fpc # "cap_read"]_vars

====
